---- MODULE Spec2Model ----
(***************************************************************************)
(* Model of check_annotation.py, the "Face Attribute Viewer": one render   *)
(* pass of the script over an uploaded CSV and one or two image            *)
(* directories.  Strings are sequences of code points, so that str.lower() *)
(* and sorted() are computed rather than assumed.                          *)
(***************************************************************************)
EXTENDS Integers, Sequences, FiniteSets, TLC

\* ------------------------------------------------------------------ bounds
MaxRows == 2
MaxNames == 3

\* ----------------------------------------------------------------- strings
\* str.lower() on one code point: 'A'..'Z' (65..90) move to 'a'..'z'.
LowerChar(c) == IF c \in 65..90 THEN c + 32 ELSE c

\* str.lower()
Lower(s) == [i \in DOMAIN s |-> LowerChar(s[i])]

\* s < t in Python's str ordering (lexicographic on code points).
StrLess(s, t) ==
    \E k \in 1..(Len(s) + 1) :
        /\ k <= Len(t)
        /\ \A i \in 1..(k - 1) : s[i] = t[i]
        /\ (k = Len(s) + 1 \/ s[k] < t[k])

\* Optional values: None / NaN is the empty sequence, a value v is <<v>>.
None == <<>>
NaN == <<>>
Some(v) == <<v>>

\* The names and file names the inputs are drawn from.
Jo == <<74, 111>>
jo == <<106, 111>>
JO == <<74, 79>>
Al == <<65, 108>>
fa == <<97>>
fA == <<65>>
fB == <<66>>
fb == <<98>>

NameValues == {Jo, jo, JO, Al}
FileValues == {fa, fB}

\* ------------------------------------------------------------- file system
\* A directory listing is the sequence Path.iterdir() yields; an entry has a
\* name, is a directory or a file, and (for a directory) its own listing.
Dir(n, children) == [name |-> n, isDir |-> TRUE, children |-> children]
File(n) == [name |-> n, isDir |-> FALSE, children |-> <<>>]

Listings ==
    { << >>,
      << Dir(JO, << File(fA), Dir(fb, <<>>) >>) >>,
      << File(jo), Dir(jo, << File(fB) >>), Dir(Jo, << File(fa) >>) >>,
      << Dir(Al, << File(fa), File(fA), File(fb) >>) >> }

\* What a path typed in the sidebar denotes: "" (nothing typed), a path that
\* is not a directory, or a directory with its listing.
PathInputs ==
    { [given |-> FALSE, dir |-> None], [given |-> TRUE, dir |-> None] }
    \cup { [given |-> TRUE, dir |-> Some(l)] : l \in Listings }

\* --------------------------------------------------------------------- CSV
ColumnChoices ==
    { <<"image_filename", "name", "gender">>,
      <<"name", "gender">>,
      <<"image_filename">> }

Range(s) == {s[i] : i \in DOMAIN s}

\* pd.read_csv cell values: a string, or NaN for an empty cell.
CellValues(col) ==
    IF col = "name" THEN {Some(n) : n \in NameValues} \cup {NaN}
    ELSE IF col = "image_filename" THEN {Some(f) : f \in FileValues} \cup {NaN}
    ELSE {Some(<<102>>)}

RowsOver(cols) ==
    { r \in [Range(cols) -> UNION {CellValues(c) : c \in Range(cols)}] :
        \A c \in Range(cols) : r[c] \in CellValues(c) }

SeqsUpTo(S, n) == UNION { [1..k -> S] : k \in 0..n }

required_columns == <<"image_filename", "name">>

HasRequired(cols) == \A c \in Range(required_columns) : c \in Range(cols)

\* An uploaded file: nothing uploaded, a file pd.read_csv rejects, or a frame
\* (columns and rows).  Frames without the required columns carry no rows.
Frames ==
    UNION { { [columns |-> cols, rows |-> rs] :
                rs \in SeqsUpTo(RowsOver(cols), IF HasRequired(cols) THEN MaxRows ELSE 0) } :
            cols \in ColumnChoices }

Uploads ==
    { [uploaded |-> FALSE, content |-> None], [uploaded |-> TRUE, content |-> None] }
    \cup { [uploaded |-> TRUE, content |-> Some(f)] : f \in Frames }

\* ------------------------------------------------------------------- state
VARIABLES
    uploaded_file,             \* st.file_uploader value
    image_base_dir_path,       \* st.text_input 2 and what the path denotes
    face_image_base_dir_path,  \* st.text_input 3 and what the path denotes
    pc,                        \* position of the script
    df,                        \* load_data result: None or Some(frame)
    unique_names_map,          \* dict: lower-cased name -> spelling
    person_list,               \* sorted(unique_names_map.values())
    selected_person,           \* st.sidebar.selectbox value: None or Some(name)
    person_df,                 \* indices of the rows of df kept by the filter
    orig_person_folder_path,   \* None or Some(entry)
    face_person_folder_path,   \* None or Some(entry)
    orig_filename_map,         \* dict: lower-cased file name -> file name
    face_filename_map,
    page,                      \* page-level st.info/st.error/st.warning calls
    rendered                   \* one element per row the loop has rendered

vars == << uploaded_file, image_base_dir_path, face_image_base_dir_path, pc, df,
           unique_names_map, person_list, selected_person, person_df,
           orig_person_folder_path, face_person_folder_path,
           orig_filename_map, face_filename_map, page, rendered >>

inputs == << uploaded_file, image_base_dir_path, face_image_base_dir_path >>

\* ------------------------------------------------------------ pure helpers
EmptyDict == [k \in {} |-> <<>>]

\* {k: v for (k, v) in pairs}: a later pair overwrites an earlier one.
RECURSIVE DictOf(_)
DictOf(pairs) ==
    IF pairs = <<>> THEN EmptyDict
    ELSE LET n == Len(pairs)
         IN (pairs[n][1] :> pairs[n][2]) @@ DictOf(SubSeq(pairs, 1, n - 1))

\* dict.get(k)
Get(d, k) == IF k \in DOMAIN d THEN Some(d[k]) ELSE None

\* seq[::-1]
Reverse(s) == [i \in 1..Len(s) |-> s[Len(s) + 1 - i]]

\* Series.dropna(): the cells that are not NaN, unwrapped.
DropNa(cells) ==
    LET NotNa(c) == c # NaN
        kept == SelectSeq(cells, NotNa)
    IN [i \in 1..Len(kept) |-> kept[i][1]]

\* Series.unique(): distinct values in order of first appearance.
RECURSIVE Unique(_)
Unique(s) ==
    IF s = <<>> THEN <<>>
    ELSE LET n == Len(s)
             front == Unique(SubSeq(s, 1, n - 1))
         IN IF s[n] \in Range(front) THEN front ELSE Append(front, s[n])

\* sorted(values): ascending in str order.
RECURSIVE SortedSet(_)
SortedSet(S) ==
    IF S = {} THEN <<>>
    ELSE LET m == CHOOSE x \in S : \A y \in S \ {x} : StrLess(x, y)
         IN <<m>> \o SortedSet(S \ {m})

\* df[col] as a sequence of cells.
Column(frame, col) == [i \in 1..Len(frame.rows) |-> frame.rows[i][col]]

\* Mutant of NameIndex: the key is the spelling itself, not its lower case.
NameIndex_CaseSensitive(frame) ==
    LET names == Reverse(Unique(DropNa(Column(frame, "name"))))
    IN DictOf([i \in 1..Len(names) |-> <<names[i], names[i]>>])

\* Mutant of NameIndex: the unique names are not reversed.
NameIndex_NoReverse(frame) ==
    LET names == Unique(DropNa(Column(frame, "name")))
    IN DictOf([i \in 1..Len(names) |-> <<Lower(names[i]), names[i]>>])

\* line 92: {name.lower(): name for name in df['name'].dropna().unique()[::-1]}
NameIndex(frame) ==
    LET names == Reverse(Unique(DropNa(Column(frame, "name"))))
    IN DictOf([i \in 1..Len(names) |-> <<Lower(names[i]), names[i]>>])

\* line 93: sorted(unique_names_map.values())
PersonList(m) == SortedSet({m[k] : k \in DOMAIN m})

\* Mutant of PersonRows: the filter compares the spellings case-sensitively.
PersonRows_CaseSensitive(frame, person) ==
    LET Keep(i) == frame.rows[i]["name"] = Some(person)
    IN SelectSeq([i \in 1..Len(frame.rows) |-> i], Keep)

\* line 105: the rows with df['name'].str.lower() == selected_person.lower(),
\* as row positions in df order; a NaN name compares unequal.
PersonRows(frame, person) ==
    LET Keep(i) == /\ frame.rows[i]["name"] # NaN
                   /\ Lower(frame.rows[i]["name"][1]) = Lower(person)
    IN SelectSeq([i \in 1..Len(frame.rows) |-> i], Keep)

\* Mutant of ResolveFolder: the is_dir() filter is missing.
ResolveFolder_NoIsDir(listing, person) ==
    LET Matches(e) == Lower(e.name) = Lower(person)
        hits == SelectSeq(listing, Matches)
    IN IF hits = <<>> THEN None ELSE Some(hits[1])

\* lines 109-111 / 118-120: next((p for p in subdirs if p.name.lower() ==
\* selected_person.lower()), None) over [p for p in base.iterdir() if p.is_dir()]
ResolveFolder(listing, person) ==
    LET IsDir(e) == e.isDir
        all_subdirs == SelectSeq(listing, IsDir)
        Matches(e) == Lower(e.name) = Lower(person)
        hits == SelectSeq(all_subdirs, Matches)
    IN IF hits = <<>> THEN None ELSE Some(hits[1])

\* lines 131-136: {f.name.lower(): f.name for f in folder.iterdir() if f.is_file()}
FilenameMap(folder) ==
    LET IsFile(e) == ~e.isDir
        files == SelectSeq(folder.children, IsFile)
    IN DictOf([i \in 1..Len(files) |-> <<Lower(files[i].name), files[i].name>>])

\* Mutant of AttributeTable: the identifying columns are left out.
AttributeTable_NoIdentity(frame, n) ==
    LET NotIdentifying(c) == c \notin Range(required_columns)
        cols == SelectSeq(frame.columns, NotIdentifying)
    IN [i \in 1..Len(cols) |-> [Attribute |-> cols[i], Value |-> frame.rows[n][cols[i]]]]

\* lines 176-177: row.to_frame().reset_index() with columns Attribute, Value
AttributeTable(frame, n) ==
    [i \in 1..Len(frame.columns) |->
        [Attribute |-> frame.columns[i], Value |-> frame.rows[n][frame.columns[i]]]]

\* ------------------------------------------------------ per-record outcomes
\* What one of the three columns of a row shows: st.image(path) or a message.
Image(root, folder, filename) ==
    [kind |-> "Found", message |-> "st.image",
     path |-> <<root, folder.name, filename>>]

Message(k, text) == [kind |-> k, message |-> text, path |-> <<>>]

\* Mutant of OrigCell: the file map is looked up with the CSV spelling.
OrigCell_CaseSensitive(csv_filename) ==
    LET correct_orig_filename == Get(orig_filename_map, csv_filename)
    IN IF correct_orig_filename # None
       THEN Image("original", orig_person_folder_path[1], correct_orig_filename[1])
       ELSE Message("FileMissing", "warning: File not found in original folder.")

\* lines 147-154: column 1 of a row whose image_filename is csv_filename
OrigCell(csv_filename) ==
    LET correct_orig_filename == Get(orig_filename_map, Lower(csv_filename))
    IN IF correct_orig_filename # None
       THEN Image("original", orig_person_folder_path[1], correct_orig_filename[1])
       ELSE Message("FileMissing", "warning: File not found in original folder.")

\* lines 157-171: column 2
FaceCell(csv_filename) ==
    IF face_person_folder_path # None
    THEN LET correct_face_filename == Get(face_filename_map, Lower(csv_filename))
         IN IF correct_face_filename # None
            THEN Image("face", face_person_folder_path[1], correct_face_filename[1])
            ELSE Message("FileMissing", "warning: File not found in face folder.")
    ELSE IF face_image_base_dir_path.given
         THEN Message("DirectoryMissing", "warning: Folder for person not found in face directory.")
         ELSE Message("NotConfigured", "info: No face image directory provided.")

\* -------------------------------------------------------------------- Init
InitScript ==
    /\ pc = "start"
    /\ df = None
    /\ unique_names_map = EmptyDict
    /\ person_list = <<>>
    /\ selected_person = None
    /\ person_df = <<>>
    /\ orig_person_folder_path = None
    /\ face_person_folder_path = None
    /\ orig_filename_map = EmptyDict
    /\ face_filename_map = EmptyDict
    /\ page = <<>>
    /\ rendered = <<>>

Init ==
    /\ uploaded_file \in Uploads
    /\ image_base_dir_path \in PathInputs
    /\ face_image_base_dir_path \in PathInputs
    /\ InitScript

\* Inputs for the name index: a frame of up to MaxNames rows whose file names
\* are all present, a valid original directory, no face directory.
NameFrames ==
    { [columns |-> <<"image_filename", "name", "gender">>, rows |-> rs] :
        rs \in SeqsUpTo({ r \in RowsOver(<<"image_filename", "name", "gender">>) :
                             r["image_filename"] = Some(fa) }, MaxNames) }

InitNames ==
    /\ uploaded_file \in { [uploaded |-> TRUE, content |-> Some(f)] : f \in NameFrames }
    /\ image_base_dir_path \in { [given |-> TRUE, dir |-> Some(l)] : l \in Listings }
    /\ face_image_base_dir_path = [given |-> FALSE, dir |-> None]
    /\ InitScript

\* ----------------------------------------------------------------- actions
\* line 59-73: nothing to do until a CSV and the original path are given
CheckInputs ==
    /\ pc = "start"
    /\ IF ~uploaded_file.uploaded \/ ~image_base_dir_path.given
       THEN /\ page' = Append(page, "info: Welcome")
            /\ pc' = "done"
       ELSE /\ pc' = "validate_dir"
            /\ UNCHANGED page
    /\ UNCHANGED << inputs, df, unique_names_map, person_list, selected_person,
                    person_df, orig_person_folder_path, face_person_folder_path,
                    orig_filename_map, face_filename_map, rendered >>

\* lines 76-80: image_base_dir.is_dir()
ValidateOrigDir ==
    /\ pc = "validate_dir"
    /\ IF image_base_dir_path.dir = None
       THEN /\ page' = Append(page, "error: The ORIGINAL image path is not a valid directory")
            /\ pc' = "done"
       ELSE /\ pc' = "load"
            /\ UNCHANGED page
    /\ UNCHANGED << inputs, df, unique_names_map, person_list, selected_person,
                    person_df, orig_person_folder_path, face_person_folder_path,
                    orig_filename_map, face_filename_map, rendered >>

\* lines 16-26, 83-85: load_data
LoadData ==
    /\ pc = "load"
    /\ df' = uploaded_file.content
    /\ IF uploaded_file.content = None
       THEN /\ page' = Append(page, "error: Error loading CSV file")
            /\ pc' = "done"
       ELSE /\ pc' = "columns"
            /\ UNCHANGED page
    /\ UNCHANGED << inputs, unique_names_map, person_list, selected_person,
                    person_df, orig_person_folder_path, face_person_folder_path,
                    orig_filename_map, face_filename_map, rendered >>

\* lines 87-89: required columns
ValidateColumns ==
    /\ pc = "columns"
    /\ IF ~HasRequired(df[1].columns)
       THEN /\ page' = Append(page, "error: The CSV file is missing 'image_filename' and/or 'name' columns.")
            /\ pc' = "done"
       ELSE /\ pc' = "index"
            /\ UNCHANGED page
    /\ UNCHANGED << inputs, df, unique_names_map, person_list, selected_person,
                    person_df, orig_person_folder_path, face_person_folder_path,
                    orig_filename_map, face_filename_map, rendered >>

\* lines 92-93: the name index and the person list
IndexNames ==
    /\ pc = "index"
    /\ unique_names_map' = NameIndex(df[1])
    /\ person_list' = PersonList(unique_names_map')
    /\ pc' = "select"
    /\ UNCHANGED << inputs, df, selected_person, person_df,
                    orig_person_folder_path, face_person_folder_path,
                    orig_filename_map, face_filename_map, page, rendered >>

\* lines 95-103: the selectbox returns an option the user picked, or None when
\* it has no options
SelectPerson ==
    /\ pc = "select"
    /\ IF person_list = <<>>
       THEN selected_person' = None
       ELSE \E i \in 1..Len(person_list) : selected_person' = Some(person_list[i])
    /\ pc' = "filter"
    /\ UNCHANGED << inputs, df, unique_names_map, person_list, person_df,
                    orig_person_folder_path, face_person_folder_path,
                    orig_filename_map, face_filename_map, page, rendered >>

\* line 105: person_df; selected_person.lower() raises AttributeError on None
FilterRows ==
    /\ pc = "filter"
    /\ IF selected_person = None
       THEN /\ page' = Append(page, "exception: AttributeError")
            /\ pc' = "crashed"
            /\ UNCHANGED person_df
       ELSE /\ person_df' = PersonRows(df[1], selected_person[1])
            /\ pc' = "resolve"
            /\ UNCHANGED page
    /\ UNCHANGED << inputs, df, unique_names_map, person_list, selected_person,
                    orig_person_folder_path, face_person_folder_path,
                    orig_filename_map, face_filename_map, rendered >>

\* lines 109-120: the person's folder under each root
ResolveDirs ==
    /\ pc = "resolve"
    /\ orig_person_folder_path' =
           ResolveFolder(image_base_dir_path.dir[1], selected_person[1])
    /\ face_person_folder_path' =
           IF face_image_base_dir_path.given /\ face_image_base_dir_path.dir # None
           THEN ResolveFolder(face_image_base_dir_path.dir[1], selected_person[1])
           ELSE None
    /\ pc' = "person"
    /\ UNCHANGED << inputs, df, unique_names_map, person_list, selected_person,
                    person_df, orig_filename_map, face_filename_map, page, rendered >>

\* lines 122-136: person-level checks, then the two file maps
PersonChecks ==
    /\ pc = "person"
    /\ IF person_df = <<>>
       THEN /\ page' = Append(page, "warning: No data found for person in the CSV file.")
            /\ pc' = "done"
            /\ UNCHANGED << orig_filename_map, face_filename_map >>
       ELSE IF orig_person_folder_path = None
       THEN /\ page' = Append(page, "error: Originals Folder Not Found")
            /\ pc' = "done"
            /\ UNCHANGED << orig_filename_map, face_filename_map >>
       ELSE /\ page' = Append(page, "write: Found images for this person.")
            /\ orig_filename_map' = FilenameMap(orig_person_folder_path[1])
            /\ face_filename_map' =
                   IF face_person_folder_path # None
                   THEN FilenameMap(face_person_folder_path[1])
                   ELSE EmptyDict
            /\ pc' = "loop"
    /\ UNCHANGED << inputs, df, unique_names_map, person_list, selected_person,
                    person_df, orig_person_folder_path, face_person_folder_path,
                    rendered >>

\* Mutant of RenderRecord: a row whose original file is missing ends the loop.
RenderRecord_StopOnMissing ==
    /\ pc = "loop"
    /\ LET index == person_df[Len(rendered) + 1]
           csv_filename == df[1].rows[index]["image_filename"]
       IN IF csv_filename = NaN
          THEN /\ page' = Append(page, "exception: AttributeError")
               /\ pc' = "crashed"
               /\ UNCHANGED rendered
          ELSE /\ rendered' = Append(rendered,
                       [index |-> index,
                        orig |-> OrigCell(csv_filename[1]),
                        face |-> FaceCell(csv_filename[1]),
                        attributes |-> AttributeTable(df[1], index)])
               /\ pc' = IF \/ Len(rendered') = Len(person_df)
                           \/ OrigCell(csv_filename[1]).kind = "FileMissing"
                        THEN "done" ELSE "loop"
               /\ UNCHANGED page
    /\ UNCHANGED << inputs, df, unique_names_map, person_list, selected_person,
                    person_df, orig_person_folder_path, face_person_folder_path,
                    orig_filename_map, face_filename_map >>

\* lines 139-178: one iteration of the loop over person_df; csv_filename.lower()
\* raises AttributeError when the image_filename cell is NaN
RenderRecord ==
    /\ pc = "loop"
    /\ LET index == person_df[Len(rendered) + 1]
           csv_filename == df[1].rows[index]["image_filename"]
       IN IF csv_filename = NaN
          THEN /\ page' = Append(page, "exception: AttributeError")
               /\ pc' = "crashed"
               /\ UNCHANGED rendered
          ELSE /\ rendered' = Append(rendered,
                       [index |-> index,
                        orig |-> OrigCell(csv_filename[1]),
                        face |-> FaceCell(csv_filename[1]),
                        attributes |-> AttributeTable(df[1], index)])
               /\ pc' = IF Len(rendered') = Len(person_df) THEN "done" ELSE "loop"
               /\ UNCHANGED page
    /\ UNCHANGED << inputs, df, unique_names_map, person_list, selected_person,
                    person_df, orig_person_folder_path, face_person_folder_path,
                    orig_filename_map, face_filename_map >>

Next ==
    \/ CheckInputs
    \/ ValidateOrigDir
    \/ LoadData
    \/ ValidateColumns
    \/ IndexNames
    \/ SelectPerson
    \/ FilterRows
    \/ ResolveDirs
    \/ PersonChecks
    \/ RenderRecord

Spec == Init /\ [][Next]_vars

SpecNames == InitNames /\ [][Next]_vars

TypeOK == pc \in {"start", "validate_dir", "load", "columns", "index", "select",
                  "filter", "resolve", "person", "loop", "done", "crashed"}

\* ------------------------------------------------- stages of the render
\* The name index has been built.
Indexed == df # None /\ HasRequired(df[1].columns) /\ pc \notin {"columns", "index"}

\* person_df has been computed (line 105 ran without raising).
Filtered == selected_person # None /\ pc # "filter"

\* Both person folders have been looked up (lines 109-120 ran).
Resolved == Filtered /\ pc # "resolve"

\* The per-record loop was entered (line 128 ran).
LoopEntered == "write: Found images for this person." \in Range(page)

Ended == pc \in {"done", "crashed"}

RowName(i) == df[1].rows[i]["name"]
RowFile(i) == df[1].rows[i]["image_filename"]

\* The non-empty names of the name column.
InputNames == { RowName(i)[1] : i \in { j \in 1..Len(df[1].rows) : RowName(j) # NaN } }

\* The row in which spelling n first appears.
FirstAppearance(n) ==
    CHOOSE i \in 1..Len(df[1].rows) :
        RowName(i) = Some(n) /\ \A j \in 1..(i - 1) : RowName(j) # Some(n)

\* ------------------------------------------------------------------ claims
\* C5: the keys of the name index are exactly the lower-cased forms of the
\* non-empty names; every key maps to one spelling that occurs in the input
\* (and folds to that key); there are at most as many canonical spellings as
\* distinct input names.
C5_IndexKeys ==
    Indexed =>
        /\ DOMAIN unique_names_map = { Lower(n) : n \in InputNames }
        /\ \A k \in DOMAIN unique_names_map :
              unique_names_map[k] \in InputNames /\ Lower(unique_names_map[k]) = k
        /\ Len(person_list) = Cardinality(DOMAIN unique_names_map)
        /\ Cardinality(Range(person_list)) <= Cardinality(InputNames)

\* C5 witness: an indexed frame with an empty name and two spellings of one key.
C5_Witness ==
    /\ Indexed
    /\ \E i \in 1..Len(df[1].rows) : RowName(i) = NaN
    /\ Cardinality(DOMAIN unique_names_map) >= 1
    /\ Cardinality(InputNames) > Cardinality(DOMAIN unique_names_map)

\* C6: among the spellings that fold to one key, the name index keeps the one
\* whose first appearance in the CSV is earliest.
C6_EarliestSurvives ==
    Indexed =>
        \A k \in DOMAIN unique_names_map :
            \A n \in InputNames :
                Lower(n) = k =>
                    FirstAppearance(unique_names_map[k]) <= FirstAppearance(n)

\* C6 witness: Jane, jane, JANE in that order (here Jo, jo, JO); Jo survives.
C6_Witness ==
    /\ Indexed
    /\ Len(df[1].rows) = 3
    /\ RowName(1) = Some(Jo) /\ RowName(2) = Some(jo) /\ RowName(3) = Some(JO)
    /\ unique_names_map[Lower(Jo)] = Jo
    /\ person_list = <<Jo>>

\* C10: a person selected from a non-empty person list has at least one row;
\* person_df holds exactly the rows of every case variant of the name, and the
\* "No data found" warning is never shown.
C10_SelectionHasRows ==
    /\ "warning: No data found for person in the CSV file." \notin Range(page)
    /\ (person_list # <<>> /\ pc \notin {"select", "filter"}) =>
          /\ selected_person # None
          /\ selected_person[1] \in Range(person_list)
          /\ person_df # <<>>
          /\ Range(person_df) =
                { i \in 1..Len(df[1].rows) :
                    RowName(i) # NaN /\ Lower(RowName(i)[1]) = Lower(selected_person[1]) }
          /\ Len(person_df) = Cardinality(Range(person_df))

\* C10 witness: the selected person has rows under two spellings, and a row of
\* another spelling than the selected one is in person_df.
C10_Witness ==
    /\ Filtered
    /\ Len(person_df) = 2
    /\ RowName(person_df[1]) # RowName(person_df[2])

\* The listing of a root's base directory (the base is a valid directory).
BaseListing(root) ==
    IF root = "original" THEN image_base_dir_path.dir[1] ELSE face_image_base_dir_path.dir[1]

FolderOf(root) ==
    IF root = "original" THEN orig_person_folder_path ELSE face_person_folder_path

\* The roots on which the resolver ran.
ResolverRoots ==
    {"original"} \cup
    (IF face_image_base_dir_path.given /\ face_image_base_dir_path.dir # None
     THEN {"face"} ELSE {})

\* Entry i of a listing is a directory whose name folds to the person's key.
IsCandidate(listing, i, person) ==
    listing[i].isDir /\ Lower(listing[i].name) = Lower(person)

\* C3: directory resolution returns the first child, in listing order, that is
\* a directory and whose lower-cased name equals the lower-cased person name;
\* not-found when there is none; never a file; the same for every spelling of
\* the person.
C3_FirstMatchingDirectory ==
    Resolved =>
        \A root \in ResolverRoots :
            LET listing == BaseListing(root)
                person == selected_person[1]
                found == FolderOf(root)
            IN /\ found = None =>
                     \A i \in 1..Len(listing) : ~IsCandidate(listing, i, person)
               /\ found # None =>
                     \E i \in 1..Len(listing) :
                        /\ listing[i] = found[1]
                        /\ IsCandidate(listing, i, person)
                        /\ \A j \in 1..(i - 1) : ~IsCandidate(listing, j, person)
               /\ \A q \in NameValues :
                     Lower(q) = Lower(person) => ResolveFolder(listing, q) = found

\* C3 witness: both roots resolved; under the original root a file with a
\* matching name was skipped and the folder found is spelled differently from
\* the selected person.
C3_Witness ==
    /\ Resolved
    /\ ResolverRoots = {"original", "face"}
    /\ orig_person_folder_path # None
    /\ orig_person_folder_path[1].name # selected_person[1]
    /\ \E i \in 1..Len(image_base_dir_path.dir[1]) :
          /\ ~image_base_dir_path.dir[1][i].isDir
          /\ Lower(image_base_dir_path.dir[1][i].name) = Lower(selected_person[1])
    /\ face_person_folder_path = None

\* ------------------------------------------------ per-record, per-root
\* The files (not subfolders) directly inside a person folder.
FilesOf(folder) ==
    { folder.children[i].name :
        i \in { j \in 1..Len(folder.children) : ~folder.children[j].isDir } }

\* Some file of the folder folds to the same key as the CSV file name.
FileKeyPresent(folder, csv_filename) ==
    \E f \in FilesOf(folder) : Lower(f) = Lower(csv_filename)

Cell(row, root) == IF root = "original" THEN row.orig ELSE row.face

Other(root) == IF root = "original" THEN "face" ELSE "original"

\* The roots the user configured: the original root, and the face root when a
\* face path was typed.
ConfiguredRoots ==
    {"original"} \cup (IF face_image_base_dir_path.given THEN {"face"} ELSE {})

\* The outcomes the page shows for the k-th record of the person on a root.
\* The person-level "Originals Folder Not Found" error counts as
\* DirectoryMissing on the original root for every record.
OutcomesOf(root, k) ==
    (IF k <= Len(rendered) THEN {Cell(rendered[k], root)} ELSE {})
    \cup (IF root = "original" /\ "error: Originals Folder Not Found" \in Range(page)
          THEN {Message("DirectoryMissing", "error: Originals Folder Not Found")}
          ELSE {})

\* The outcome o is the one the matcher's contract gives record k on root.
ExpectedOutcome(root, k, o) ==
    LET folder == FolderOf(root)
        csv == RowFile(person_df[k])
    IN IF folder = None THEN o.kind = "DirectoryMissing" /\ o.path = <<>>
       ELSE IF csv # NaN /\ FileKeyPresent(folder[1], csv[1])
       THEN /\ o.kind = "Found"
            /\ o.path[1] = root
            /\ o.path[2] = folder[1].name
            /\ o.path[3] \in FilesOf(folder[1])
            /\ Lower(o.path[3]) = Lower(csv[1])
       ELSE o.kind = "FileMissing" /\ o.path = <<>>

\* Cells of different kinds carry different messages.
KindsReportedDifferently ==
    \A k1, k2 \in 1..Len(rendered) : \A r1, r2 \in {"original", "face"} :
        Cell(rendered[k1], r1).kind # Cell(rendered[k2], r2).kind =>
            Cell(rendered[k1], r1).message # Cell(rendered[k2], r2).message

\* C1 as stated: when the render has ended, every record of the selected
\* person has, on every configured root, exactly one outcome, and it is the
\* expected one of DirectoryMissing, FileMissing and Found(path).
C1_Original ==
    (Resolved /\ Ended) =>
        /\ \A k \in 1..Len(person_df) : \A root \in ConfiguredRoots :
              \E o \in OutcomesOf(root, k) :
                  OutcomesOf(root, k) = {o} /\ ExpectedOutcome(root, k, o)
        /\ KindsReportedDifferently

\* C1 amended: every record the loop rendered has exactly one outcome per
\* root: on the original root FileMissing or Found(folder / actual file); on
\* the face root NotConfigured when no face path was typed, DirectoryMissing
\* (no lookup) when the person folder did not resolve, else FileMissing or
\* Found.  Kinds are reported with different messages.  The loop runs only
\* when the original person folder resolved; otherwise one person-level error
\* is shown and no record is rendered.  The loop ends early only at a record
\* whose image_filename is NaN.
C1_RenderedOutcomes ==
    /\ \A k \in 1..Len(rendered) :
          /\ rendered[k].index = person_df[k]
          /\ RowFile(person_df[k]) # NaN
          /\ orig_person_folder_path # None
          /\ rendered[k].orig.kind \in {"FileMissing", "Found"}
          /\ ExpectedOutcome("original", k, rendered[k].orig)
          /\ IF face_image_base_dir_path.given
             THEN ExpectedOutcome("face", k, rendered[k].face)
             ELSE rendered[k].face.kind = "NotConfigured" /\ rendered[k].face.path = <<>>
    /\ KindsReportedDifferently
    /\ "error: Originals Folder Not Found" \in Range(page) <=>
          (Resolved /\ Ended /\ person_df # <<>> /\ orig_person_folder_path = None)
    /\ "error: Originals Folder Not Found" \in Range(page) => rendered = <<>>
    /\ (LoopEntered /\ Ended) =>
          IF pc = "done" THEN Len(rendered) = Len(person_df)
          ELSE RowFile(person_df[Len(rendered) + 1]) = NaN

\* C1 witness: the render ended with two rows; one row's original file was
\* found under another spelling while its face folder is missing, the other
\* row's original file is missing.
C1_Witness ==
    /\ pc = "done"
    /\ Len(rendered) = 2
    /\ \E k \in 1..2 :
          /\ rendered[k].orig.kind = "Found"
          /\ rendered[k].orig.path[3] # RowFile(person_df[k])[1]
          /\ rendered[k].face.kind = "DirectoryMissing"
    /\ \E k \in 1..2 : rendered[k].orig.kind = "FileMissing"

\* C1 witness of the person-level case: the original person folder did not
\* resolve although the face folder did.
C1_FolderWitness ==
    /\ "error: Originals Folder Not Found" \in Range(page)
    /\ face_person_folder_path # None

MissingOn(root, k) ==
    \E o \in OutcomesOf(root, k) : o.kind \in {"DirectoryMissing", "FileMissing"}

\* C2 as stated: a missing match of a record on one root never prevents the
\* other root's outcome for that record, nor the rendering of any other record
\* of the person.
C2_Original ==
    (Resolved /\ Ended) =>
        \A k \in 1..Len(person_df) : \A root \in {"original", "face"} :
            MissingOn(root, k) =>
                /\ OutcomesOf(Other(root), k) # {}
                /\ Len(rendered) = Len(person_df)

\* C2 amended: inside the per-record loop each root is matched on its own (a
\* cell is Found exactly when that root's folder holds the file) and a
\* FileMissing or DirectoryMissing cell never stops the loop: every record up
\* to the first one with a NaN image_filename is rendered with both cells.
\* When the original person folder did not resolve, no record is rendered.
C2_LoopIndependence ==
    /\ \A k \in 1..Len(rendered) :
          LET csv == RowFile(person_df[k])[1]
          IN /\ rendered[k].orig.kind = "Found" <=>
                    FileKeyPresent(orig_person_folder_path[1], csv)
             /\ rendered[k].face.kind = "Found" <=>
                    (/\ face_person_folder_path # None
                     /\ FileKeyPresent(face_person_folder_path[1], csv))
    /\ LoopEntered =>
          \A k \in 1..Len(person_df) :
              (\A j \in 1..k : RowFile(person_df[j]) # NaN) =>
                  IF Ended THEN k <= Len(rendered) ELSE pc = "loop"
    /\ (LoopEntered /\ pc = "crashed") => RowFile(person_df[Len(rendered) + 1]) = NaN
    /\ (Resolved /\ Ended /\ orig_person_folder_path = None) => rendered = <<>>

\* C2 witness: the first row lacks its original file and shows its face file,
\* the second row shows its original file and lacks its face file.
C2_Witness ==
    /\ pc = "done"
    /\ Len(rendered) = 2
    /\ rendered[1].orig.kind = "FileMissing" /\ rendered[1].face.kind = "Found"
    /\ rendered[2].orig.kind = "Found" /\ rendered[2].face.kind = "FileMissing"

\* C8 as stated: the attribute table of a rendered record lists exactly the
\* columns other than image_filename and name.
C8_Original ==
    \A k \in 1..Len(rendered) :
        { rendered[k].attributes[i].Attribute : i \in DOMAIN rendered[k].attributes }
            = Range(df[1].columns) \ Range(required_columns)

\* C8 amended: the attribute table of a rendered record lists every column of
\* the CSV row, image_filename and name included, in column order, each with
\* the row's value.
C8_AllColumns ==
    \A k \in 1..Len(rendered) :
        LET table == rendered[k].attributes
        IN /\ Len(table) = Len(df[1].columns)
           /\ \A i \in 1..Len(table) :
                 /\ table[i].Attribute = df[1].columns[i]
                 /\ table[i].Value = df[1].rows[rendered[k].index][df[1].columns[i]]

\* C8 witness: a rendered table with the rows name, image_filename and gender.
C8_Witness ==
    /\ rendered # <<>>
    /\ \A c \in {"image_filename", "name", "gender"} :
          \E i \in DOMAIN rendered[1].attributes : rendered[1].attributes[i].Attribute = c

\* C7: rows with a missing image_filename or name are not among the records
\* viewed for a person, and the loop only meets rows with both present.
C7_Claim ==
    /\ Indexed => \A i \in 1..Len(person_list) : person_list[i] # <<>>
    /\ Filtered =>
          \A k \in 1..Len(person_df) :
              RowName(person_df[k]) # NaN /\ RowFile(person_df[k]) # NaN
    /\ LoopEntered => pc # "crashed"

\* C9: with both required columns, a valid original directory and no non-empty
\* name, the index and the person list are empty and the render does not end
\* in an unhandled exception.
C9_Claim ==
    (Indexed /\ InputNames = {}) =>
        /\ unique_names_map = EmptyDict
        /\ person_list = <<>>
        /\ pc # "crashed"

\* C4: on each root whose base path was given and is not a directory, no
\* subfolder is resolved and what the render reports for that root is a
\* configuration error, not the "subfolder not found" report.
C4_Claim ==
    /\ (image_base_dir_path.given /\ image_base_dir_path.dir = None /\ Ended
        /\ uploaded_file.uploaded) =>
          /\ "error: The ORIGINAL image path is not a valid directory" \in Range(page)
          /\ "error: Originals Folder Not Found" \notin Range(page)
          /\ orig_person_folder_path = None
    /\ (face_image_base_dir_path.given /\ face_image_base_dir_path.dir = None
        /\ Resolved /\ Ended) =>
          /\ face_person_folder_path = None
          /\ \A k \in 1..Len(rendered) :
                rendered[k].face.message #
                    "warning: Folder for person not found in face directory."

====
